---- MODULE Spec2Model ----
(***************************************************************************)
(* A model of interfake: the interface model and its type expressions      *)
(* (model.go), the source walker (parse.go) and the entry point            *)
(* (interfake.go).                                                         *)
(*                                                                         *)
(* Two specifications share the module:                                    *)
(*   SpecType  builds a type expression the way parseType nests the        *)
(*             constructors of model.go and applies String,                *)
(*             addPackagePaths and Interface.PackagePaths to it;           *)
(*   Spec      runs main: parsePackageDir, the parseFiles loop, one file   *)
(*             per step, then seekInterface and the report.                *)
(*                                                                         *)
(* Go strings that the code only concatenates are TLA+ strings; strings    *)
(* the code scans character by character (file names, import paths,        *)
(* identifiers, literal values) are sequences of one-character strings.    *)
(***************************************************************************)
EXTENDS Integers, Sequences, FiniteSets, TLC

VARIABLES
    \* ---- SpecType: model.go ----
    typ,        \* the Type under construction
    depth,      \* its nesting depth
    phase,      \* "build" | "string" | "paths" | "interface"
    pt,         \* the PackageTable handed to String
    out,        \* the result of String
    pps,        \* the PackagePathSet handed to addPackagePaths (mutated in place)
    prev,       \* pps as it was before the latest addPackagePaths call
    calls,      \* number of addPackagePaths calls made on pps
    intf,       \* the Interface PackagePaths is called on
    \* ---- Spec: parse.go, interfake.go ----
    pc,         \* position of main
    names,      \* the file names handed to parseFiles
    pkg,        \* the declaring import path handed to parseFiles
    idx,        \* number of names the parseFiles loop has consumed
    log,        \* per consumed .go name: what parsing that file gave
    file,       \* the syntax tree of the file parsed last
    imports,    \* fileParser.imports of the file parsed last
    resolved,   \* per import declaration of that file: the identifier it resolved to
    goFiles,    \* the GoFile list of parseFiles
    err,        \* the error of parsePackageDir
    ret,        \* which call handed goFiles and err to main
    target,     \* *targetOption
    found,      \* what seekInterface returned
    report      \* what main reports on exit

typeVars == <<typ, depth, phase, pt, out, pps, prev, calls, intf>>
walkVars == <<pc, names, pkg, idx, log, file, imports, resolved, goFiles, err,
              ret, target, found, report>>
vars == <<typeVars, walkVars>>

\* A value for "no value" (a nil pointer, an absent result).
Nil == [nil |-> TRUE]

-----------------------------------------------------------------------------
(* Bounds *)

\* Longest chain of nested type constructors built.
MaxDepth == 2
\* Longest argument or result list of a FuncType or a Method built.
MaxParams == 2
\* Number of addPackagePaths calls made on one PackagePathSet.
MaxCalls == 2
\* Longest list of file names handed to parseFiles.
MaxFiles == 2
\* Longest list of import declarations of a file.
MaxImports == 2

-----------------------------------------------------------------------------
(* model.go: the type expressions *)

\* The struct types of model.go, as records tagged by "kind".
ArrayType(len, t) == [kind |-> "Array", Len |-> len, Type |-> t]
SliceType(t) == [kind |-> "Slice", Type |-> t]
ChanType(dir, t) == [kind |-> "Chan", Direction |-> dir, Type |-> t]
FuncType(args, results) == [kind |-> "Func", Args |-> args, Results |-> results]
MapType(key, value) == [kind |-> "Map", Key |-> key, Value |-> value]
NamedType(package, name) == [kind |-> "Named", Package |-> package, TypeName |-> name]
PointerType(t) == [kind |-> "Pointer", Type |-> t]
PredeclaredType(name) == [kind |-> "Predeclared", Name |-> name]
Parameter(name, t) == [Name |-> name, Type |-> t]
Method(name, args, results) == [Name |-> name, Args |-> args, Results |-> results]
Interface(name, methods) == [Name |-> name, Methods |-> methods]
GoFile(packageName, interfaces) == [PackageName |-> packageName, Interfaces |-> interfaces]

\* ChanDir: SendDirection = 1 << 0, RecvDirection = 1 << 1; 0 is bidirectional.
SendDirection == 1
RecvDirection == 2

\* Variant of MapGet: the key itself for an absent key.
MapGetKeyFallback(m, k) == IF k \in DOMAIN m THEN m[k] ELSE k

\* A Go map read: the zero value (the empty string) for an absent key, also
\* of a nil map.
MapGet(m, k) == IF k \in DOMAIN m THEN m[k] ELSE ""

\* strings.Join
RECURSIVE Join(_, _)
Join(elems, sep) ==
    IF Len(elems) = 0 THEN ""
    ELSE IF Len(elems) = 1 THEN elems[1]
    ELSE elems[1] \o sep \o Join(Tail(elems), sep)

\* fmt's %d of an int
DigitChars == <<"0", "1", "2", "3", "4", "5", "6", "7", "8", "9">>
RECURSIVE Itoa(_)
Itoa(n) ==
    IF n < 0 THEN "-" \o Itoa(0 - n)
    ELSE IF n < 10 THEN DigitChars[n + 1]
    ELSE Itoa(n \div 10) \o DigitChars[(n % 10) + 1]

RECURSIVE String(_, _)

ArrayTypeString(at, table) == "[" \o Itoa(at.Len) \o "]" \o String(at.Type, table)

SliceTypeString(st, table) == "[]" \o String(st.Type, table)

ChanTypeString(ct, table) ==
    LET s == String(ct.Type, table)
    IN  IF ct.Direction = RecvDirection THEN "<-chan " \o s
        ELSE IF ct.Direction = SendDirection THEN "chan<- " \o s
        ELSE "chan " \o s

\* Variant of FuncTypeString: no space before the results.
FuncTypeStringNoSpace(ft, table) ==
    LET args == [i \in 1..Len(ft.Args) |-> String(ft.Args[i].Type, table)]
        results == [i \in 1..Len(ft.Results) |-> String(ft.Results[i].Type, table)]
        joined == Join(results, ", ")
        rc == Len(ft.Results)
        resultsStr == IF rc = 1 THEN joined
                      ELSE IF rc > 1 THEN "(" \o joined \o ")"
                      ELSE joined
    IN  "func(" \o Join(args, ", ") \o ")" \o resultsStr

FuncTypeString(ft, table) ==
    LET args == [i \in 1..Len(ft.Args) |-> String(ft.Args[i].Type, table)]
        results == [i \in 1..Len(ft.Results) |-> String(ft.Results[i].Type, table)]
        joined == Join(results, ", ")
        rc == Len(ft.Results)
        resultsStr == IF rc = 1 THEN " " \o joined
                      ELSE IF rc > 1 THEN " (" \o joined \o ")"
                      ELSE joined
    IN  "func(" \o Join(args, ", ") \o ")" \o resultsStr

MapTypeString(mt, table) ==
    "map[" \o String(mt.Key, table) \o "]" \o String(mt.Value, table)

\* Variant of NamedTypeString: without the test of the empty package.
NamedTypeStringAlwaysQualified(nt, table) ==
    MapGet(table, nt.Package) \o "." \o nt.TypeName

NamedTypeString(nt, table) ==
    IF nt.Package = "" THEN nt.TypeName
    ELSE MapGet(table, nt.Package) \o "." \o nt.TypeName

PointerTypeString(pType, table) == "*" \o String(pType.Type, table)

\* Variant of PredeclaredTypeString: the name looked up as a package.
PredeclaredTypeStringQualified(pType, table) ==
    MapGet(table, pType.Name) \o pType.Name

PredeclaredTypeString(pType, table) == pType.Name

\* Type.String: the dispatch on the dynamic type.
String(t, table) ==
    CASE t.kind = "Array" -> ArrayTypeString(t, table)
      [] t.kind = "Slice" -> SliceTypeString(t, table)
      [] t.kind = "Chan" -> ChanTypeString(t, table)
      [] t.kind = "Func" -> FuncTypeString(t, table)
      [] t.kind = "Map" -> MapTypeString(t, table)
      [] t.kind = "Named" -> NamedTypeString(t, table)
      [] t.kind = "Pointer" -> PointerTypeString(t, table)
      [] t.kind = "Predeclared" -> PredeclaredTypeString(t, table)

RECURSIVE addPackagePaths(_, _)

\* The loops of FuncType.addPackagePaths and Method.addPackagePaths over a
\* parameter list, threading the set.
RECURSIVE addParamsPackagePaths(_, _)
addParamsPackagePaths(params, set) ==
    IF Len(params) = 0 THEN set
    ELSE addParamsPackagePaths(Tail(params), addPackagePaths(params[1].Type, set))

NamedTypeAddPackagePaths(nt, set) ==
    IF nt.Package # "" THEN set \cup {nt.Package} ELSE set

\* Variant of FuncTypeAddPackagePaths: the results are not visited.
FuncTypeAddPackagePathsArgsOnly(ft, set) == addParamsPackagePaths(ft.Args, set)

FuncTypeAddPackagePaths(ft, set) ==
    addParamsPackagePaths(ft.Results, addParamsPackagePaths(ft.Args, set))

MapTypeAddPackagePaths(mt, set) ==
    addPackagePaths(mt.Value, addPackagePaths(mt.Key, set))

PredeclaredTypeAddPackagePaths(pType, set) == set

\* Type.addPackagePaths: the set after the call.
addPackagePaths(t, set) ==
    CASE t.kind = "Array" -> addPackagePaths(t.Type, set)
      [] t.kind = "Slice" -> addPackagePaths(t.Type, set)
      [] t.kind = "Chan" -> addPackagePaths(t.Type, set)
      [] t.kind = "Func" -> FuncTypeAddPackagePaths(t, set)
      [] t.kind = "Map" -> MapTypeAddPackagePaths(t, set)
      [] t.kind = "Named" -> NamedTypeAddPackagePaths(t, set)
      [] t.kind = "Pointer" -> addPackagePaths(t.Type, set)
      [] t.kind = "Predeclared" -> PredeclaredTypeAddPackagePaths(t, set)

MethodAddPackagePaths(m, set) ==
    addParamsPackagePaths(m.Results, addParamsPackagePaths(m.Args, set))

RECURSIVE addMethodsPackagePaths(_, _)
addMethodsPackagePaths(methods, set) ==
    IF Len(methods) = 0 THEN set
    ELSE addMethodsPackagePaths(Tail(methods), MethodAddPackagePaths(methods[1], set))

\* Interface.PackagePaths
PackagePaths(i) == addMethodsPackagePaths(i.Methods, {})

-----------------------------------------------------------------------------
(* parse.go: the source walker *)

\* Results of the functions that return (value, error); a third outcome is
\* a run-time panic, which unwinds every caller.
Ok(v) == [status |-> "ok", val |-> v, err |-> Nil]
Fail(e) == [status |-> "err", val |-> Nil, err |-> e]
Panic == [status |-> "panic", val |-> Nil, err |-> Nil]

\* fmt.Errorf(format, ..., cause): an error whose text starts with the
\* format's text; no position.
Errorf(msg, cause) == [pos |-> Nil, msg |-> msg, cause |-> cause]

\* token.FileSet.Position: the file set holds the one file ParseFile added.
Position(fileSet, pos) ==
    [Filename |-> fileSet, Line |-> pos.Line, Column |-> pos.Column]

\* fileParser.errorf: "%s:%d:%d: " + format, with ps.Filename, ps.Line,
\* ps.Column.
errorf(p, pos, msg, cause) ==
    [pos |-> Position(p.fileSet, pos), msg |-> msg, cause |-> cause]

\* strings.HasSuffix
HasSuffix(s, suffix) ==
    /\ Len(s) >= Len(suffix)
    /\ SubSeq(s, Len(s) - Len(suffix) + 1, Len(s)) = suffix

SetMax(S) == CHOOSE x \in S : \A y \in S : y <= x
SetMin(S) == CHOOSE x \in S : \A y \in S : x <= y

\* path.Split(importPath): the part after the final slash.
PathLast(path) ==
    LET slashes == {i \in 1..Len(path) : path[i] = "/"}
    IN  IF slashes = {} THEN path ELSE SubSeq(path, SetMax(slashes) + 1, Len(path))

\* strings.SplitN(last, ".", 2)[0]: the part before the first dot.
BeforeDot(last) ==
    LET dots == {i \in 1..Len(last) : last[i] = "."}
    IN  IF dots = {} THEN last ELSE SubSeq(last, 1, SetMin(dots) - 1)

\* strconv.Atoi of a literal's text: an optional sign, then decimal digits
\* only.
DigitValue(c) == CHOOSE d \in 0..9 : DigitChars[d + 1] = c
IsDigit(c) == \E d \in 0..9 : DigitChars[d + 1] = c
RECURSIVE DecimalValue(_)
DecimalValue(s) ==
    IF Len(s) = 0 THEN 0
    ELSE 10 * DecimalValue(SubSeq(s, 1, Len(s) - 1)) + DigitValue(s[Len(s)])
Atoi(s) ==
    LET signed == Len(s) > 0 /\ s[1] \in {"+", "-"}
        digits == IF signed THEN Tail(s) ELSE s
    IN  IF Len(digits) = 0 \/ \E i \in 1..Len(digits) : ~IsDigit(digits[i])
        THEN Fail(Errorf("strconv.Atoi: parsing: invalid syntax", Nil))
        ELSE Ok(IF signed /\ s[1] = "-" THEN 0 - DecimalValue(digits)
                ELSE DecimalValue(digits))

\* ast.Ident.IsExported: the name starts with an upper-case letter.
UpperChars == {"A", "B", "C", "F", "N", "R", "T", "W"}
IsExported(name) == Len(name) > 0 /\ name[1] \in UpperChars

EmptyImports == [k \in {} |-> <<>>]
MapPut(m, k, v) == [x \in DOMAIN m \cup {k} |-> IF x = k THEN v ELSE m[x]]

\* The package name an import declaration binds: the explicit name, or the
\* name build.Import finds, or the import path's last element up to its
\* first dot.
importName(is, oracle) ==
    LET importPath == SubSeq(is.Path.Value, 2, Len(is.Path.Value) - 1)
    IN  IF is.Name # Nil THEN is.Name.Name
        ELSE IF ~oracle[importPath].ok THEN BeforeDot(PathLast(importPath))
        ELSE oracle[importPath].Name

\* Variant of importsOfFile: a name bound twice keeps the later path.
RECURSIVE importsLoopNoCollision(_, _, _)
importsLoopNoCollision(specs, m, oracle) ==
    IF Len(specs) = 0 THEN [m |-> m, err |-> Nil]
    ELSE LET is == specs[1]
             importPath == SubSeq(is.Path.Value, 2, Len(is.Path.Value) - 1)
             pkgName == importName(is, oracle)
         IN  IF is.Name # Nil /\ is.Name.Name = <<"_">>
             THEN importsLoopNoCollision(Tail(specs), m, oracle)
             ELSE importsLoopNoCollision(Tail(specs), MapPut(m, pkgName, importPath), oracle)

\* The loop of importsOfFile over the remaining import declarations.
RECURSIVE importsLoop(_, _, _)
importsLoop(specs, m, oracle) ==
    IF Len(specs) = 0 THEN [m |-> m, err |-> Nil]
    ELSE LET is == specs[1]
             importPath == SubSeq(is.Path.Value, 2, Len(is.Path.Value) - 1)
             pkgName == importName(is, oracle)
         IN  IF is.Name # Nil /\ is.Name.Name = <<"_">>
             THEN importsLoop(Tail(specs), m, oracle)
             ELSE IF pkgName \in DOMAIN m
             THEN [m |-> m,
                   err |-> Errorf("imported package collision: %q imported twice", Nil)]
             ELSE importsLoop(Tail(specs), MapPut(m, pkgName, importPath), oracle)

importsOfFileOverwriting(f, oracle) == importsLoopNoCollision(f.Imports, EmptyImports, oracle)

importsOfFile(f, oracle) == importsLoop(f.Imports, EmptyImports, oracle)

\* interfacesOfFile: the interface type specs of the type declarations, in
\* declaration order.
RECURSIVE interfacesOfSpecs(_)
interfacesOfSpecs(specs) ==
    IF Len(specs) = 0 THEN <<>>
    ELSE (IF specs[1].node = "TypeSpec" /\ specs[1].Type.node = "InterfaceType"
          THEN <<[name |-> specs[1].Name, it |-> specs[1].Type]>>
          ELSE <<>>) \o interfacesOfSpecs(Tail(specs))
RECURSIVE interfacesOfDecls(_)
interfacesOfDecls(decls) ==
    IF Len(decls) = 0 THEN <<>>
    ELSE (IF decls[1].node = "GenDecl" /\ decls[1].Tok = "type"
          THEN interfacesOfSpecs(decls[1].Specs)
          ELSE <<>>) \o interfacesOfDecls(Tail(decls))
interfacesOfFile(f) == interfacesOfDecls(f.Decls)

\* Names of the predeclared leaves parseType makes of empty literals.
EmptyInterfaceName == <<"i", "n", "t", "e", "r", "f", "a", "c", "e", "{", "}">>
EmptyStructName == <<"s", "t", "r", "u", "c", "t", "{", "}">>

\* F applied to the value of v, v being evaluated once.
Eval(v, F(_)) == CHOOSE y \in {F(x) : x \in {v}} : TRUE

\* "if err != nil { return nil, err }" after a call that gave r, then F on
\* the value it returned; a panic unwinds the same way.
Then(r, F(_)) ==
    CHOOSE y \in {IF x.status # "ok" THEN x ELSE F(x.val) : x \in {r}} : TRUE

RECURSIVE parseType(_, _, _)
RECURSIVE parseFieldListFrom(_, _, _, _)
RECURSIVE parseFunc(_, _, _)

\* The array length of parseType's ast.ArrayType case: -1 without a length
\* expression, else strconv.Atoi of the literal the length is asserted to
\* be; the type assertion panics on any other expression.
arrayLen(p, v) ==
    IF v.Len = Nil THEN Ok(0 - 1)
    ELSE IF v.Len.node # "BasicLit" THEN Panic
    ELSE Eval(Atoi(v.Len.Value),
              LAMBDA x : IF x.status = "err"
                         THEN Fail(errorf(p, v.Len.Pos, "bad array size: %v", x.err))
                         ELSE x)

\* The ast.ArrayType case of parseType.
parseArrayType(p, pkgPath, v) ==
    Then(arrayLen(p, v),
         LAMBDA ln : Then(parseType(p, pkgPath, v.Elt),
                          LAMBDA t : IF ln = 0 - 1 THEN Ok(SliceType(t))
                                     ELSE Ok(ArrayType(ln, t))))

parseChanType(p, pkgPath, v) ==
    Then(parseType(p, pkgPath, v.Value),
         LAMBDA t : Ok(ChanType(IF v.Dir = "RECV" THEN RecvDirection
                                ELSE IF v.Dir = "SEND" THEN SendDirection
                                ELSE 0,
                                t)))

parseIdent(p, pkgPath, v) ==
    IF IsExported(v.Name)
    THEN Ok(NamedType(IF pkgPath \in DOMAIN p.imports THEN p.imports[pkgPath] ELSE pkgPath,
                      v.Name))
    ELSE Ok(PredeclaredType(v.Name))

parseMapType(p, pkgPath, v) ==
    Then(parseType(p, pkgPath, v.Key),
         LAMBDA key : Then(parseType(p, pkgPath, v.Value),
                           LAMBDA value : Ok(MapType(key, value))))

parseSelectorExpr(p, pkgPath, v) ==
    IF v.X.Name \notin DOMAIN p.imports
    THEN Fail(errorf(p, v.Pos, "unknown package %q", Nil))
    ELSE Ok(NamedType(p.imports[v.X.Name], v.Sel.Name))

\* fileParser.parseType
parseType(p, pkgPath, v) ==
    CASE v.node = "ArrayType" -> parseArrayType(p, pkgPath, v)
      [] v.node = "ChanType" -> parseChanType(p, pkgPath, v)
      [] v.node = "FuncType" ->
            Then(parseFunc(p, pkgPath, v), LAMBDA f : Ok(FuncType(f.args, f.results)))
      [] v.node = "Ident" -> parseIdent(p, pkgPath, v)
      [] v.node = "InterfaceType" ->
            IF v.Methods # Nil /\ Len(v.Methods.List) > 0
            THEN Fail(errorf(p, v.Pos, "can't handle non-empty unnamed interface types", Nil))
            ELSE Ok(PredeclaredType(EmptyInterfaceName))
      [] v.node = "MapType" -> parseMapType(p, pkgPath, v)
      [] v.node = "SelectorExpr" -> parseSelectorExpr(p, pkgPath, v)
      [] v.node = "StarExpr" ->
            Then(parseType(p, pkgPath, v.X), LAMBDA t : Ok(PointerType(t)))
      [] v.node = "StructType" ->
            IF v.Fields # Nil /\ Len(v.Fields.List) > 0
            THEN Fail(errorf(p, v.Pos, "can't handle non-empty unnamed struct types", Nil))
            ELSE Ok(PredeclaredType(EmptyStructName))
      [] OTHER -> Fail(Errorf("don't know how to parse type %T", Nil))

\* The parameters parseFieldList makes of one field of type t: one without
\* a name for a field without names, else one per name.
fieldParameters(f, t) ==
    IF Len(f.Names) = 0 THEN <<Parameter(<<>>, t)>>
    ELSE [i \in 1..Len(f.Names) |-> Parameter(f.Names[i].Name, t)]

\* The loop of parseFieldList over the remaining fields, ps being the
\* parameters made so far.
parseFieldListFrom(p, pkgPath, fields, ps) ==
    IF Len(fields) = 0 THEN Ok(ps)
    ELSE Then(parseType(p, pkgPath, fields[1].Type),
              LAMBDA t : parseFieldListFrom(p, pkgPath, Tail(fields),
                                            ps \o fieldParameters(fields[1], t)))

parseFieldList(p, pkgPath, fields) == parseFieldListFrom(p, pkgPath, fields, <<>>)

\* Variant of parseFuncFailure: the cause handed on as it is.
parseFuncFailureBare(p, f, msg, cause) == Fail(cause)

\* What parseFunc returns when a parameter list failed with the error
\* cause.
parseFuncFailure(p, f, msg, cause) == Fail(errorf(p, f.Pos, msg, cause))

\* parseFunc's handling of the result r of parseFieldList.
parseFuncList(p, f, msg, r) ==
    Eval(r, LAMBDA x : IF x.status = "err" THEN parseFuncFailure(p, f, msg, x.err) ELSE x)

\* fileParser.parseFunc
parseFunc(p, pkgPath, f) ==
    Then(parseFuncList(p, f, "failed parsing arguments: %v",
                       IF f.Params # Nil THEN parseFieldList(p, pkgPath, f.Params.List)
                       ELSE Ok(<<>>)),
         LAMBDA args :
            Then(parseFuncList(p, f, "failed parsing results: %v",
                               IF f.Results # Nil
                               THEN parseFieldList(p, pkgPath, f.Results.List)
                               ELSE Ok(<<>>)),
                 LAMBDA results : Ok([args |-> args, results |-> results])))

\* The loop of parseInterface over the remaining method fields.
RECURSIVE parseMethodsFrom(_, _, _, _)
parseMethodsFrom(p, pkgPath, fields, methods) ==
    IF Len(fields) = 0 THEN Ok(methods)
    ELSE IF fields[1].Type.node = "FuncType"
    THEN IF Len(fields[1].Names) # 1
         THEN Fail(Errorf("expected one name for interface %v, got %d", Nil))
         ELSE Then(parseFunc(p, pkgPath, fields[1].Type),
                   LAMBDA f : parseMethodsFrom(p, pkgPath, Tail(fields),
                                Append(methods,
                                       Method(fields[1].Names[1].Name, f.args, f.results))))
    ELSE Fail(Errorf("don't know how to mock method of type %T", Nil))

\* fileParser.parseInterface
parseInterface(p, name, pkgPath, it) ==
    Then(parseMethodsFrom(p, pkgPath, it.Methods.List, <<>>),
         LAMBDA ms : Ok(Interface(name, ms)))

\* The loop of parseFile over the remaining interfaces.
RECURSIVE parseInterfacesFrom(_, _, _, _)
parseInterfacesFrom(p, pkgPath, nis, is) ==
    IF Len(nis) = 0 THEN Ok(is)
    ELSE Then(parseInterface(p, nis[1].name.Name, pkgPath, nis[1].it),
              LAMBDA i : parseInterfacesFrom(p, pkgPath, Tail(nis), Append(is, i)))

\* fileParser.parseFile; the result also carries p.imports as the call left
\* it.
parseFile(fileSet, f, pkgPath, oracle) ==
    Eval(importsOfFile(f, oracle),
         LAMBDA im :
            [res |-> IF im.err # Nil THEN Fail(im.err)
                     ELSE Then(parseInterfacesFrom([fileSet |-> fileSet, imports |-> im.m],
                                                   pkgPath, interfacesOfFile(f), <<>>),
                               LAMBDA is : Ok(GoFile(f.Name.Name, is))),
             imports |-> im.m])

\* Variant of parseFilesFailure: the files made so far are returned.
parseFilesFailurePartial(sofar, e) == [files |-> sofar, err |-> e]

\* What parseFiles returns when a file failed, goFiles being the files made
\* so far.
parseFilesFailure(sofar, e) == [files |-> <<>>, err |-> e]

\* One iteration of the loop of parseFiles on a .go name: parser.ParseFile
\* gave content (a syntax tree, or an error), then parseFile.
parseFilesBody(name, content, pkgPath, oracle) ==
    IF content.node # "File"
    THEN [res |-> Fail(Errorf("failed parsing source file %v: %v", content)),
          imports |-> EmptyImports]
    ELSE parseFile(name, content, pkgPath, oracle)

-----------------------------------------------------------------------------
(* interfake.go *)

RECURSIVE seekInInterfaces(_, _)
seekInInterfaces(is, interfaceName) ==
    IF Len(is) = 0 THEN Nil
    ELSE IF is[1].Name = interfaceName THEN is[1]
    ELSE seekInInterfaces(Tail(is), interfaceName)

\* seekInterface: the first interface of that name, with its file's package
\* name; (nil, "") when there is none.
RECURSIVE seekInterface(_, _)
seekInterface(files, interfaceName) ==
    IF Len(files) = 0 THEN [intf |-> Nil, pkgName |-> <<>>]
    ELSE LET i == seekInInterfaces(files[1].Interfaces, interfaceName)
         IN  IF i # Nil THEN [intf |-> i, pkgName |-> files[1].PackageName]
             ELSE seekInterface(Tail(files), interfaceName)

-----------------------------------------------------------------------------
(* SpecType: type expressions are nested as parseType nests them, then     *)
(* String, addPackagePaths and Interface.PackagePaths are applied.         *)

\* Leaves: predeclared names (built-in and local), and named types without
\* and with a package.
LeafTypes ==
    {PredeclaredType("int"), PredeclaredType("Bar"),
     NamedType("", "Bar"), NamedType("foo", "Bar"), NamedType("bar", "Baz")}

\* A type standing beside the nested one in a map, a parameter list.
Sibling == NamedType("io", "Writer")
Plain == PredeclaredType("error")

ArrayLens == {3, 10}
ChanDirs == {0, SendDirection, RecvDirection}

NilTable == [k \in {} |-> ""]
PackageTables ==
    {NilTable,
     [k \in {"foo"} |-> "Foo"],
     [k \in {"", "int", "foo", "bar", "io"} |->
        IF k = "foo" THEN "Foo" ELSE IF k \in {"", "int"} THEN "main" ELSE k]}

StartSets == {{}, {"os"}}

\* <<t, Plain, ..., Plain>> of length n
Padded(t, n) == [i \in 1..n |-> Parameter("", IF i = 1 THEN t ELSE Plain)]

\* The (Args, Results) pairs built around t: t leads one list of 1..MaxParams
\* parameters, the other list is empty or holds the sibling.
FuncShapes(t) ==
    LET own == {Padded(t, n) : n \in 1..MaxParams}
        other == {<<>>, <<Parameter("w", Sibling)>>}
    IN  (own \X other) \cup (other \X own)

\* The method lists built around t: t in the arguments or in the results of
\* the last method, after zero or one method that holds the sibling only.
MethodLists(t) ==
    LET last == {Method("Get", <<Parameter("x", t)>>, <<>>),
                 Method("Get", <<>>, Padded(t, MaxParams))}
        first == {<<>>, <<Method("Put", <<Parameter("w", Sibling)>>, <<Parameter("", Plain)>>)>>}
    IN  {f \o <<m>> : f \in first, m \in last}

TypeInit ==
    /\ typ \in LeafTypes
    /\ depth = 0
    /\ phase = "build"
    /\ pt = NilTable
    /\ out = ""
    /\ pps = {}
    /\ prev = {}
    /\ calls = 0
    /\ intf = Nil

WalkIdle ==
    /\ pc = "idle"
    /\ names = <<>>
    /\ pkg = <<>>
    /\ idx = 0
    /\ log = <<>>
    /\ file = Nil
    /\ imports = EmptyImports
    /\ resolved = <<>>
    /\ goFiles = <<>>
    /\ err = Nil
    /\ ret = "none"
    /\ target = <<>>
    /\ found = Nil
    /\ report = "none"

Wrap(t) ==
    /\ phase = "build"
    /\ depth < MaxDepth
    /\ typ' = t
    /\ depth' = depth + 1
    /\ UNCHANGED <<phase, pt, out, pps, prev, calls, intf, walkVars>>

WrapArray == \E n \in ArrayLens : Wrap(ArrayType(n, typ))
WrapSlice == Wrap(SliceType(typ))
WrapChan == \E d \in ChanDirs : Wrap(ChanType(d, typ))
WrapFunc == \E s \in FuncShapes(typ) : Wrap(FuncType(s[1], s[2]))
WrapMap == \E keyed \in BOOLEAN :
    Wrap(IF keyed THEN MapType(typ, Sibling) ELSE MapType(Plain, typ))
WrapPointer == Wrap(PointerType(typ))

\* typ.String(table)
CallString ==
    /\ phase = "build"
    /\ \E table \in PackageTables :
        /\ pt' = table
        /\ out' = String(typ, table)
    /\ phase' = "string"
    /\ UNCHANGED <<typ, depth, pps, prev, calls, intf, walkVars>>

\* typ.addPackagePaths(set), on a fresh set or again on the set of the
\* previous call.
CallAddPackagePaths ==
    /\ phase \in {"build", "paths"}
    /\ calls < MaxCalls
    /\ \E set \in (IF calls = 0 THEN StartSets ELSE {pps}) :
        /\ prev' = set
        /\ pps' = addPackagePaths(typ, set)
    /\ calls' = calls + 1
    /\ phase' = "paths"
    /\ UNCHANGED <<typ, depth, pt, out, intf, walkVars>>

\* intf.PackagePaths() of an interface whose methods hold typ
CallPackagePaths ==
    /\ phase = "build"
    /\ \E ms \in MethodLists(typ) :
        /\ intf' = Interface("Store", ms)
        /\ pps' = PackagePaths(intf')
    /\ phase' = "interface"
    /\ UNCHANGED <<typ, depth, pt, out, prev, calls, walkVars>>

TypeNext ==
    \/ WrapArray
    \/ WrapSlice
    \/ WrapChan
    \/ WrapFunc
    \/ WrapMap
    \/ WrapPointer
    \/ CallString
    \/ CallAddPackagePaths
    \/ CallPackagePaths

InitType == TypeInit /\ WalkIdle

SpecType == InitType /\ [][TypeNext]_vars

-----------------------------------------------------------------------------
(* Spec: main, on the files and the build oracle's answers it may meet *)

\* Syntax tree nodes of go/ast, as records tagged by "node".
At(line, column) == [Line |-> line, Column |-> column]
Ident(name) == [node |-> "Ident", Name |-> name]
BasicLit(value, pos) == [node |-> "BasicLit", Value |-> value, Pos |-> pos]
FieldList(fields) == [List |-> fields]
Field(fieldNames, type) == [Names |-> fieldNames, Type |-> type]
ArrayTypeExpr(len, elt) == [node |-> "ArrayType", Len |-> len, Elt |-> elt]
ChanTypeExpr(dir, value) == [node |-> "ChanType", Dir |-> dir, Value |-> value]
FuncTypeExpr(params, results, pos) ==
    [node |-> "FuncType", Params |-> params, Results |-> results, Pos |-> pos]
InterfaceTypeExpr(methods, pos) ==
    [node |-> "InterfaceType", Methods |-> FieldList(methods), Pos |-> pos]
MapTypeExpr(key, value) == [node |-> "MapType", Key |-> key, Value |-> value]
SelectorExpr(x, sel, pos) == [node |-> "SelectorExpr", X |-> x, Sel |-> sel, Pos |-> pos]
StarExpr(x) == [node |-> "StarExpr", X |-> x]
StructTypeExpr(fields, pos) ==
    [node |-> "StructType", Fields |-> FieldList(fields), Pos |-> pos]
Ellipsis(elt) == [node |-> "Ellipsis", Elt |-> elt]
ImportSpec(name, path) == [Name |-> name, Path |-> [Value |-> <<"\"">> \o path \o <<"\"">>]]
TypeSpec(name, type) == [node |-> "TypeSpec", Name |-> Ident(name), Type |-> type]
GenDecl(tok, specs) == [node |-> "GenDecl", Tok |-> tok, Specs |-> specs]
FuncDecl == [node |-> "FuncDecl"]
ValueSpec == [node |-> "ValueSpec"]
File(name, fileImports, decls) ==
    [node |-> "File", Name |-> Ident(name), Imports |-> fileImports, Decls |-> decls]

\* What parser.ParseFile gives for a file that does not parse (a
\* scanner.ErrorList, whose text starts with file:line:column) and for a file
\* it cannot read.
SyntaxError(name) ==
    [node |-> "Error", pos |-> Position(name, At(1, 1)), msg |-> "expected 'package'",
     cause |-> Nil]
ReadError == [node |-> "Error", pos |-> Nil, msg |-> "open: permission denied", cause |-> Nil]

\* Names
AGo == <<"a", ".", "g", "o">>
BGo == <<"b", ".", "g", "o">>
NotGo == <<"a", ".", "c">>
Sample == <<"s", "a", "m", "p", "l", "e">>
Reader == <<"R", "e", "a", "d", "e", "r">>
Writer == <<"W", "r", "i", "t", "e", "r">>
Closer == <<"C", "l", "o", "s", "e", "r">>
Read == <<"R", "e", "a", "d">>
IntName == <<"i", "n", "t">>
ByteName == <<"b", "y", "t", "e">>
ErrorName == <<"e", "r", "r", "o", "r">>
PathAB == <<"a", "/", "b">>
PathCBV == <<"c", "/", "b", ".", "v">>

FileNames == {AGo, BGo, NotGo}
NameLists == UNION {[1..n -> FileNames] : n \in 0..MaxFiles}

\* pkg.ImportPath of the directory: "." outside a source tree, else the
\* directory's import path.
PkgPaths == {<<".">>, <<"b">>}

Targets == {<<>>, Reader, Writer}

\* build.Import(importPath, "", 0): fails, or finds the package and its
\* name.
ImportPaths == {PathAB, PathCBV}
NoPkg == [ok |-> FALSE, Name |-> <<>>]
Pkg(name) == [ok |-> TRUE, Name |-> name]
Answers == {NoPkg, Pkg(<<"b">>), Pkg(<<"q">>)}

\* The import paths build.Import is asked about for the file content: those
\* of its import declarations without a name.
AskedPaths(content) ==
    IF content.node # "File" THEN {}
    ELSE {SubSeq(content.Imports[i].Path.Value, 2, Len(content.Imports[i].Path.Value) - 1)
            : i \in {j \in 1..Len(content.Imports) : content.Imports[j].Name = Nil}}

\* The answers build.Import may give while the file content is parsed.
Oracles(content) == [AskedPaths(content) -> Answers]

ImportSpecs ==
    {ImportSpec(n, path) : n \in {Nil, Ident(<<"_">>), Ident(<<"b">>)}, path \in ImportPaths}
ImportLists == UNION {[1..n -> ImportSpecs] : n \in 0..MaxImports}

IntExpr == Ident(IntName)
BarExpr == Ident(<<"B", "a", "r">>)
QualifiedExpr == SelectorExpr(Ident(<<"b">>), Ident(<<"T">>), At(4, 9))

\* Type expressions of a parameter: every case of parseType, with array
\* lengths absent, decimal, not decimal and not a literal.
TypeExprs ==
    {IntExpr, BarExpr, QualifiedExpr,
     SelectorExpr(Ident(<<"o", "s">>), Ident(<<"F">>), At(4, 9)),
     ArrayTypeExpr(Nil, IntExpr),
     ArrayTypeExpr(BasicLit(<<"3">>, At(4, 10)), IntExpr),
     ArrayTypeExpr(BasicLit(<<"1", "0">>, At(4, 10)), BarExpr),
     ArrayTypeExpr(BasicLit(<<"0", "x", "3">>, At(4, 10)), IntExpr),
     ArrayTypeExpr(BasicLit(<<"'", "a", "'">>, At(4, 10)), IntExpr),
     ArrayTypeExpr(Ident(<<"N">>), IntExpr),
     ArrayTypeExpr(Nil, ArrayTypeExpr(Ident(<<"N">>), IntExpr)),
     ArrayTypeExpr(BasicLit(<<"3">>, At(4, 10)), StructTypeExpr(<<Field(<<Ident(<<"x">>)>>, IntExpr)>>, At(4, 12))),
     ChanTypeExpr("SEND", IntExpr),
     ChanTypeExpr("RECV", IntExpr),
     ChanTypeExpr("SEND|RECV", QualifiedExpr),
     FuncTypeExpr(FieldList(<<Field(<<Ident(<<"x">>), Ident(<<"y">>)>>, IntExpr)>>),
                  FieldList(<<Field(<<>>, Ident(ErrorName))>>), At(4, 9)),
     FuncTypeExpr(FieldList(<<Field(<<>>, Ellipsis(IntExpr))>>), Nil, At(4, 9)),
     MapTypeExpr(IntExpr, BarExpr),
     StarExpr(QualifiedExpr),
     InterfaceTypeExpr(<<>>, At(4, 9)),
     InterfaceTypeExpr(<<Field(<<Ident(<<"M">>)>>, FuncTypeExpr(FieldList(<<>>), Nil, At(4, 20)))>>, At(4, 9)),
     StructTypeExpr(<<>>, At(4, 9)),
     StructTypeExpr(<<Field(<<Ident(<<"x">>)>>, IntExpr)>>, At(4, 9)),
     Ellipsis(IntExpr)}

\* type Reader interface { Read(p <e>) }
MethodOf(e) ==
    Field(<<Ident(Read)>>,
          FuncTypeExpr(FieldList(<<Field(<<Ident(<<"p">>)>>, e)>>), Nil, At(3, 6)))
ReaderDecl(fields) ==
    GenDecl("type", <<TypeSpec(Reader, InterfaceTypeExpr(fields, At(2, 13)))>>)

\* Files that differ in their import declarations; the method names b.T.
ImportFiles ==
    {File(Sample, il, <<ReaderDecl(<<MethodOf(QualifiedExpr)>>)>>) : il \in ImportLists}


\* package sample: type Reader interface { Read(p []byte) (int, error) }
SampleFile ==
    File(Sample, <<>>,
         <<ReaderDecl(<<Field(<<Ident(Read)>>,
               FuncTypeExpr(FieldList(<<Field(<<Ident(<<"p">>)>>, ArrayTypeExpr(Nil, Ident(ByteName)))>>),
                            FieldList(<<Field(<<>>, IntExpr), Field(<<>>, Ident(ErrorName))>>),
                            At(3, 6)))>>)>>)

\* package other: a function, a variable, a struct type and the interfaces
\* Writer (empty) and Reader
MixedFile ==
    File(<<"o", "t", "h", "e", "r">>, <<>>,
         <<FuncDecl, GenDecl("var", <<ValueSpec>>),
           GenDecl("type", <<TypeSpec(<<"S">>, StructTypeExpr(<<>>, At(3, 8))),
                             TypeSpec(Writer, InterfaceTypeExpr(<<>>, At(4, 13)))>>),
           ReaderDecl(<<MethodOf(IntExpr)>>)>>)

\* no declaration
EmptyFile == File(Sample, <<>>, <<>>)

\* a result type parseType has no case for
BadResultFile ==
    File(Sample, <<>>,
         <<ReaderDecl(<<Field(<<Ident(Read)>>,
               FuncTypeExpr(FieldList(<<>>), FieldList(<<Field(<<>>, Ellipsis(IntExpr))>>),
                            At(3, 6)))>>)>>)

\* an embedded interface
EmbeddedFile == File(Sample, <<>>, <<ReaderDecl(<<Field(<<>>, Ident(Closer))>>)>>)

\* a function type as an interface element: a method field without a name
UnnamedFuncFile ==
    File(Sample, <<>>,
         <<ReaderDecl(<<Field(<<>>, FuncTypeExpr(FieldList(<<>>), Nil, At(3, 2)))>>)>>)

\* import b "a/b"; import b "c/b.v"
CollisionFile ==
    File(Sample, <<ImportSpec(Ident(<<"b">>), PathAB), ImportSpec(Ident(<<"b">>), PathCBV)>>,
         <<ReaderDecl(<<MethodOf(QualifiedExpr)>>)>>)

\* Files that differ in the type of the parameter; b is imported by name.
TypeFile(e) ==
    File(Sample, <<ImportSpec(Ident(<<"b">>), PathAB)>>, <<ReaderDecl(<<MethodOf(e)>>)>>)

TypeFiles == {TypeFile(e) : e \in TypeExprs}

OtherFiles ==
    {SampleFile, MixedFile, EmptyFile, BadResultFile, EmbeddedFile, UnnamedFuncFile}

\* Every shape: met by a walk of one file.
AllFiles == ImportFiles \cup TypeFiles \cup OtherFiles

\* The shapes a walk of several files meets: three that convert, and one
\* per way of failing.
BasicFiles ==
    {SampleFile, MixedFile, EmptyFile, EmbeddedFile, UnnamedFuncFile, CollisionFile,
     TypeFile(SelectorExpr(Ident(<<"o", "s">>), Ident(<<"F">>), At(4, 9))),
     TypeFile(ArrayTypeExpr(BasicLit(<<"0", "x", "3">>, At(4, 10)), IntExpr)),
     TypeFile(ArrayTypeExpr(Ident(<<"N">>), IntExpr))}

\* What parser.ParseFile may give for the file called name, one of the
\* files fileNames.
FileContents(fileNames, name) ==
    (IF Len(fileNames) = 1 THEN AllFiles ELSE BasicFiles)
        \cup {SyntaxError(name), ReadError}

TypeIdle ==
    /\ typ = Nil
    /\ depth = 0
    /\ phase = "idle"
    /\ pt = NilTable
    /\ out = ""
    /\ pps = {}
    /\ prev = {}
    /\ calls = 0
    /\ intf = Nil

WalkInit ==
    /\ pc = "main"
    /\ target \in Targets
    /\ names = <<>>
    /\ pkg = <<>>
    /\ idx = 0
    /\ log = <<>>
    /\ file = Nil
    /\ imports = EmptyImports
    /\ resolved = <<>>
    /\ goFiles = <<>>
    /\ err = Nil
    /\ ret = "none"
    /\ found = Nil
    /\ report = "none"

\* main, lines 20-24
CheckTarget ==
    /\ pc = "main"
    /\ IF target = <<>>
       THEN /\ report' = "target option must be set"
            /\ pc' = "exit"
       ELSE /\ report' = report
            /\ pc' = "parsePackageDir"
    /\ UNCHANGED <<names, pkg, idx, log, file, imports, resolved, goFiles, err, ret,
                   target, found, typeVars>>

\* parsePackageDir up to the call of parseFiles: build.Default.ImportDir
\* fails, or names the files and the import path.
ParsePackageDir ==
    /\ pc = "parsePackageDir"
    /\ \/ /\ goFiles' = <<>>
          /\ err' = Errorf("build: no buildable Go source files", Nil)
          /\ ret' = "ImportDir"
          /\ pc' = "seek"
          /\ UNCHANGED <<names, pkg>>
       \/ /\ names' \in NameLists
          /\ pkg' \in PkgPaths
          /\ pc' = "parseFiles"
          /\ UNCHANGED <<goFiles, err, ret>>
    /\ UNCHANGED <<idx, log, file, imports, resolved, target, found, report, typeVars>>

\* parseFiles, an iteration on a name without the .go suffix
ParseFilesSkip ==
    /\ pc = "parseFiles"
    /\ idx < Len(names)
    /\ ~HasSuffix(names[idx + 1], <<".", "g", "o">>)
    /\ idx' = idx + 1
    /\ UNCHANGED <<pc, names, pkg, log, file, imports, resolved, goFiles, err, ret,
                   target, found, report, typeVars>>

\* parseFiles, an iteration on a .go name
ParseFilesFile ==
    /\ pc = "parseFiles"
    /\ idx < Len(names)
    /\ HasSuffix(names[idx + 1], <<".", "g", "o">>)
    /\ \E content \in FileContents(names, names[idx + 1]) : \E oracle \in Oracles(content) :
       \E r \in {parseFilesBody(names[idx + 1], content, pkg, oracle)} :
       \E failure \in {parseFilesFailure(goFiles, r.res.err)} :
            /\ file' = content
            /\ imports' = r.imports
            /\ resolved' = IF content.node = "File"
                           THEN [i \in 1..Len(content.Imports) |->
                                    importName(content.Imports[i], oracle)]
                           ELSE <<>>
            /\ log' = Append(log, [name |-> names[idx + 1], res |-> r.res])
            /\ goFiles' = CASE r.res.status = "ok" -> Append(goFiles, r.res.val)
                            [] r.res.status = "err" -> failure.files
                            [] OTHER -> goFiles
            /\ err' = IF r.res.status = "err" THEN failure.err ELSE err
            /\ ret' = IF r.res.status = "err" THEN "parseFiles" ELSE ret
            /\ idx' = IF r.res.status = "ok" THEN idx + 1 ELSE idx
            /\ pc' = CASE r.res.status = "ok" -> pc
                       [] r.res.status = "err" -> "seek"
                       [] OTHER -> "panic"
    /\ UNCHANGED <<names, pkg, target, found, report, typeVars>>

\* parseFiles, after the last name
ParseFilesReturn ==
    /\ pc = "parseFiles"
    /\ idx = Len(names)
    /\ err' = Nil
    /\ ret' = "parseFiles"
    /\ pc' = "seek"
    /\ UNCHANGED <<names, pkg, idx, log, file, imports, resolved, goFiles, target,
                   found, report, typeVars>>

\* main, lines 26-30: the error of parsePackageDir is assigned and not
\* read; seekInterface runs on the files whatever it is.
SeekInterface ==
    /\ pc = "seek"
    /\ found' = seekInterface(goFiles, target)
    /\ IF found'.intf = Nil
       THEN /\ report' = "not found interface"
            /\ pc' = "exit"
       ELSE /\ report' = report
            /\ pc' = "generate"
    /\ UNCHANGED <<names, pkg, idx, log, file, imports, resolved, goFiles, err, ret,
                   target, typeVars>>

Init == TypeIdle /\ WalkInit

Next ==
    \/ CheckTarget
    \/ ParsePackageDir
    \/ ParseFilesSkip
    \/ ParseFilesFile
    \/ ParseFilesReturn
    \/ SeekInterface

Spec == Init /\ [][Next]_vars

-----------------------------------------------------------------------------
(* Properties of the type expressions (SpecType) *)

\* The types directly below t.
Children(t) ==
    CASE t.kind \in {"Array", "Slice", "Chan", "Pointer"} -> {t.Type}
      [] t.kind = "Map" -> {t.Key, t.Value}
      [] t.kind = "Func" -> {t.Args[i].Type : i \in 1..Len(t.Args)}
                            \cup {t.Results[i].Type : i \in 1..Len(t.Results)}
      [] OTHER -> {}

\* Every node of the tree t, at any depth.
RECURSIVE Nodes(_)
Nodes(t) == {t} \cup UNION {Nodes(c) : c \in Children(t)}

\* The non-empty Package values of the Named nodes of t.
NamedPackages(t) ==
    {n.Package : n \in {m \in Nodes(t) : m.kind = "Named" /\ m.Package # ""}}

\* The argument and result types of the methods of i.
MethodTypes(i) ==
    UNION {{i.Methods[k].Args[j].Type : j \in 1..Len(i.Methods[k].Args)}
           \cup {i.Methods[k].Results[j].Type : j \in 1..Len(i.Methods[k].Results)}
           : k \in 1..Len(i.Methods)}

\* C3: PackagePaths is exactly the set of the non-empty Package values of
\* the Named nodes at any depth of any argument or result type of any
\* method; addPackagePaths adds exactly those of its tree to the set, a node
\* that is not Named adds only what its children add, and a second call on
\* the same set leaves the set as it is.
C3_PackagePathsExact ==
    /\ phase = "interface" =>
        pps = UNION {NamedPackages(t) : t \in MethodTypes(intf)}
    /\ phase = "paths" =>
        /\ pps = prev \cup NamedPackages(typ)
        /\ \A n \in Nodes(typ) : n.kind # "Named" =>
            addPackagePaths(n, {}) = UNION {addPackagePaths(c, {}) : c \in Children(n)}
        /\ calls >= 2 => pps = prev

\* A named type two constructors deep in the results of the second method:
\* its package and the sibling's are the paths.
C3_Witness ==
    /\ phase = "interface"
    /\ depth = 2
    /\ Len(intf.Methods) = 2
    /\ Len(intf.Methods[2].Results) >= 1
    /\ NamedPackages(typ) = {"foo"}
    /\ pps = {"foo", "io"}

\* C4: a Named type with a package the table maps to P renders as P.T; a
\* Named type with the empty package renders as T, whatever the table holds.
C4_NamedQualified ==
    (phase = "string" /\ typ.kind = "Named") =>
        /\ typ.Package = "" => out = typ.TypeName
        /\ (typ.Package # "" /\ typ.Package \in DOMAIN pt) =>
            out = pt[typ.Package] \o "." \o typ.TypeName
        /\ (typ = NamedType("foo", "Bar") /\ "foo" \in DOMAIN pt) => out = "Foo.Bar"
        /\ typ = NamedType("", "Bar") => out = "Bar"

C4_Witness ==
    /\ phase = "string"
    /\ typ = NamedType("foo", "Bar")
    /\ pt = [k \in {"foo"} |-> "Foo"]
    /\ out = "Foo.Bar"

\* The table with every package of t it does not map mapped to the empty
\* string.
Completed(table, t) ==
    [k \in DOMAIN table \cup NamedPackages(t) |-> MapGet(table, k)]

\* C5 as stated: a Named type whose non-empty package is not a key of the
\* table renders with the raw package path as the qualifier.
C5_RawPathFallback ==
    (phase = "string" /\ typ.kind = "Named" /\ typ.Package # ""
        /\ typ.Package \notin DOMAIN pt) =>
        out = typ.Package \o "." \o typ.TypeName

\* C5, amended: a Named type whose non-empty package is not a key of the
\* table (a nil table too) renders, without failing, with the empty string
\* as the qualifier: the separator followed by the type name; nested in
\* any other variant it renders as under a table that maps the package to
\* the empty string.
C5_EmptyQualifier ==
    phase = "string" =>
        /\ (typ.kind = "Named" /\ typ.Package # "" /\ typ.Package \notin DOMAIN pt) =>
            out = "." \o typ.TypeName
        /\ out = String(typ, Completed(pt, typ))
        /\ (typ = SliceType(PointerType(NamedType("bar", "Baz"))) /\ "bar" \notin DOMAIN pt) =>
            out = "[]*.Baz"

C5_Witness ==
    /\ phase = "string"
    /\ typ = SliceType(PointerType(NamedType("bar", "Baz")))
    /\ pt = NilTable
    /\ out = "[]*.Baz"

\* The rendered types of a parameter list, joined by ", ".
JoinedTypes(params, table) ==
    Join([i \in 1..Len(params) |-> String(params[i].Type, table)], ", ")

\* C6: a FuncType renders as "func(" args ")" followed by nothing for no
\* result, by a space and the bare result type for one result, and by a
\* space and the parenthesized results for two or more; arguments and
\* results are joined by ", " and rendered under the same table.
C6_FuncArity ==
    (phase = "string" /\ typ.kind = "Func") =>
        LET head == "func(" \o JoinedTypes(typ.Args, pt) \o ")"
            rc == Len(typ.Results)
        IN  /\ rc = 0 => out = head
            /\ rc = 1 => out = head \o " " \o String(typ.Results[1].Type, pt)
            /\ rc >= 2 => out = head \o " (" \o JoinedTypes(typ.Results, pt) \o ")"
            /\ (typ = FuncType(<<Parameter("w", Sibling)>>, Padded(NamedType("foo", "Bar"), 2))
                    /\ "io" \in DOMAIN pt) =>
                out = "func(io.Writer) (Foo.Bar, error)"
            /\ (typ = FuncType(Padded(PredeclaredType("int"), 2), <<>>)) =>
                out = "func(int, error)"

C6_Witness ==
    /\ phase = "string"
    /\ typ = FuncType(<<Parameter("w", Sibling)>>, Padded(NamedType("foo", "Bar"), 2))
    /\ out = "func(io.Writer) (Foo.Bar, error)"

\* C9: a PredeclaredType renders as its name under any table, and
\* addPackagePaths leaves the set as it was.
C9_PredeclaredIdentity ==
    /\ (phase = "string" /\ typ.kind = "Predeclared") => out = typ.Name
    /\ (phase = "paths" /\ typ.kind = "Predeclared") => pps = prev

C9_Witness ==
    /\ phase = "paths"
    /\ typ = PredeclaredType("Bar")
    /\ prev = {}
    /\ pps = {}

-----------------------------------------------------------------------------
(* Properties of the walk (Spec) *)

GoSuffix == <<".", "g", "o">>

\* The names parseFiles does not skip, in input order.
GoNames == SelectSeq(names, LAMBDA n : HasSuffix(n, GoSuffix))

\* What parsing the file parsed last gave.
Last == log[Len(log)]

\* The errors of the chain of e: e, the error it wraps, and so on.
RECURSIVE Chain(_)
Chain(e) == IF e.cause = Nil THEN {e} ELSE {e} \cup Chain(e.cause)

\* The messages and the positions found in the text of e.
Msgs(e) == {x.msg : x \in Chain(e)}
Positions(e) == {x.pos : x \in {y \in Chain(e) : y.pos # Nil}}

\* The text of e starts with the name of the file parsed last, a line and
\* a column.
Annotated(e) == e.pos # Nil /\ e.pos.Filename = Last.name

CollisionMsg == "imported package collision: %q imported twice"
MethodFieldMsgs ==
    {"expected one name for interface %v, got %d",
     "don't know how to mock method of type %T"}
TypeMsgs ==
    {"unknown package %q",
     "can't handle non-empty unnamed interface types",
     "can't handle non-empty unnamed struct types",
     "bad array size: %v",
     "don't know how to parse type %T"}

C2_NotFoundDistinct ==
    report = "not found interface" =>
        /\ err = Nil
        /\ ret = "parseFiles"
        /\ \A i \in 1..Len(goFiles) : \A j \in 1..Len(goFiles[i].Interfaces) :
            goFiles[i].Interfaces[j].Name # target

\* The import path of the i-th import declaration of f.
ImportPathOf(f, i) == SubSeq(f.Imports[i].Path.Value, 2, Len(f.Imports[i].Path.Value) - 1)

\* The import declarations of f that bind a name.
Binding(f) ==
    {i \in 1..Len(f.Imports) :
        ~(f.Imports[i].Name # Nil /\ f.Imports[i].Name.Name = <<"_">>)}

\* C7: when two import declarations of the file parsed last, neither named
\* "_", resolve to the same identifier and name distinct paths, the file
\* failed with the collision error and parseFiles returned no GoFile; when
\* the file was parsed, its import table maps the identifier of every
\* declaration not named "_" to that declaration's path, so no identifier
\* stands for two paths.
C7_ImportCollision ==
    (Len(log) > 0 /\ file.node = "File") =>
        /\ (\E i, j \in Binding(file) :
                /\ i # j
                /\ resolved[i] = resolved[j]
                /\ ImportPathOf(file, i) # ImportPathOf(file, j)) =>
            /\ Last.res.status = "err"
            /\ Last.res.err.msg = CollisionMsg
            /\ ret = "parseFiles"
            /\ err = Last.res.err
            /\ goFiles = <<>>
        /\ Last.res.status = "ok" =>
            /\ DOMAIN imports = {resolved[i] : i \in Binding(file)}
            /\ \A i \in Binding(file) : imports[resolved[i]] = ImportPathOf(file, i)

\* Two declarations named b, of distinct paths, in the second file; the
\* file before gave a GoFile, and no GoFile is returned.
C7_Witness ==
    /\ Len(log) = 2
    /\ log[1].res.status = "ok"
    /\ file = CollisionFile
    /\ resolved = <<<<"b">>, <<"b">>>>
    /\ Last.res.status = "err"
    /\ Last.res.err.msg = CollisionMsg
    /\ goFiles = <<>>

\* C8 as stated: every error parseFiles returns for a file it could read
\* into a syntax tree holds a file name, a line and a column.
C8_EveryErrorAnnotated ==
    (ret = "parseFiles" /\ err # Nil /\ file.node = "File") => Positions(err) # {}

\* C8, amended: an error parseFiles returns for an unknown package
\* qualifier, a non-empty anonymous interface or struct, an array length
\* literal that is no decimal integer or a type expression parseType has no
\* case for starts with the file name, the line and the column of the
\* function type whose parameter list failed; an error for an import
\* collision, for a method field without exactly one name or for an
\* embedded (non-function) method field holds the message only.
C8_TypeErrorsAnnotated ==
    (ret = "parseFiles" /\ err # Nil /\ file.node = "File") =>
        /\ Msgs(err) \cap TypeMsgs # {} =>
            /\ Annotated(err)
            /\ err.msg \in {"failed parsing arguments: %v", "failed parsing results: %v"}
            /\ \A x \in Chain(err) : (x.msg \in TypeMsgs \ {"don't know how to parse type %T"}) =>
                x.pos # Nil /\ x.pos.Filename = Last.name
        /\ err.msg \in {CollisionMsg} \cup MethodFieldMsgs => Positions(err) = {}
        /\ Msgs(err) \cap (TypeMsgs \cup {CollisionMsg} \cup MethodFieldMsgs) # {}

\* A type expression without a case, in a result list: the error starts
\* with the position of the method's function type.
C8_Witness ==
    /\ ret = "parseFiles"
    /\ file = BadResultFile
    /\ err.msg = "failed parsing results: %v"
    /\ err.pos = Position(Last.name, At(3, 6))
    /\ err.cause.msg = "don't know how to parse type %T"
    /\ err.cause.pos = Nil

\* The length expression e is a literal of a decimal integer that is not
\* negative.
IsLength(e) ==
    /\ e.node = "BasicLit"
    /\ Atoi(e.Value).status = "ok"
    /\ Atoi(e.Value).val >= 0

\* C10: for a file whose one parameter has array syntax e, the element
\* being convertible: without a length the parameter is a Slice; with a
\* length that denotes the integer n it is an Array of Len n; with any
\* other length (a literal that is no decimal integer, an expression that
\* is no literal) the walk returns an error that holds a position, and does
\* not crash.
C10_ArrayLength ==
    \A e \in {x \in TypeExprs : x.node = "ArrayType" /\ x.Elt.node = "Ident"} :
        (Len(log) > 0 /\ file = TypeFile(e)) =>
            LET r == Last.res
                t == r.val.Interfaces[1].Methods[1].Args[1].Type
            IN  /\ e.Len = Nil =>
                    r.status = "ok" /\ t.kind = "Slice"
                /\ (e.Len # Nil /\ IsLength(e.Len)) =>
                    r.status = "ok" /\ t.kind = "Array" /\ t.Len = Atoi(e.Len.Value).val
                /\ (e.Len # Nil /\ ~IsLength(e.Len)) =>
                    /\ r.status = "err"
                    /\ Positions(r.err) # {}
                    /\ ret = "parseFiles"
                    /\ err = r.err

====
